---- MODULE Spec2Model ----
(***************************************************************************)
(* Model of lutris/gui/views/media_loader.py (MediaLoader.download_icons   *)
(* on a concurrent.futures.ThreadPoolExecutor) and of the widgets of       *)
(* lutris/gui/widgets/common.py (SlugEntry, NumberEntry, FileChooserEntry, *)
(* EditableGrid).                                                          *)
(***************************************************************************)
EXTENDS Integers, Sequences, FiniteSets, Bags, TLC

(***************************************************************************)
(* Bounds of the model.                                                    *)
(***************************************************************************)
\* Largest media_urls dict explored with every combination of download behaviours.
MaxUrls == 2
\* Size of the media_urls dict of the worker-pool specification (> num_workers).
PoolUrls == 9
\* Largest media_urls dict of the specification with fairness.
FairUrls == 2

(***************************************************************************)
(* Generic helpers.                                                        *)
(***************************************************************************)
Last(q) == q[Len(q)]

Front(q) == SubSeq(q, 1, Len(q) - 1)

Reverse(q) == [i \in 1..Len(q) |-> q[Len(q) + 1 - i]]

Range(q) == {q[i] : i \in 1..Len(q)}

\* Every order in which the elements of a set can be listed.
Listings(S) == {q \in [1..Cardinality(S) -> S] : \A i, j \in 1..Cardinality(S) : q[i] = q[j] => i = j}

(***************************************************************************)
(* MediaLoader                                                             *)
(***************************************************************************)
VARIABLES
    media_urls,        \* the dict argument: sequence of <<slug, url>> items in dict order
    service_media,     \* per item: what service_media.download does (see Behaviours)
    pc,                \* position of the thread that called download_icons
    nsub,              \* number of futures stored in the dict under construction
    future,            \* future id -> [state, result]
    future_downloads,  \* the dict future -> slug built by the comprehension
    work_queue,        \* executor._work_queue: sequence of work items
    threads,           \* len(executor._threads)
    alive,             \* worker threads started (t.start() has returned)
    idle,              \* executor._idle_semaphore
    taken,             \* futures whose work item a worker got off the queue, run() not begun
    started,           \* futures set RUNNING whose download is not yet called
    running,           \* futures whose download is called and has not returned or raised
    returned,          \* futures whose download is over and whose result is not yet set
    releasing,         \* workers past work_item.run() that have not yet released the semaphore
    calls,             \* service_media.download calls made so far: bag of <<slug, url>>
    ac_pending,        \* as_completed: pending
    batch,             \* as_completed: the list being yielded from (popped at the end)
    snapshot,          \* as_completed: the futures found finished when it was entered
    waiter_installed,  \* as_completed: its waiter exists (created, and its finally not yet over)
    waiter_on,         \* the futures whose _waiters holds the waiter (those not yet yielded)
    waiter_finished,   \* waiter.finished_futures
    cur,               \* loop variable `future` (0: not yet bound)
    emitted,           \* "icon-loaded" emissions: [slug, path, thread]
    logged,            \* logger.exception calls: slug
    completed,         \* futures in the order they finished (set_result / set_exception)
    in_emit            \* emit() calls that have begun and not returned

inputVars == <<media_urls, service_media>>

\* The executor's threads, work queue and idle semaphore, and where each worker is.
poolVars == <<work_queue, threads, alive, idle, taken, started, running, returned, releasing>>

\* The state of the as_completed generator.
drainVars == <<ac_pending, batch, snapshot, waiter_installed, waiter_on, waiter_finished>>

\* What the loop body has done.
outputVars == <<emitted, logged, in_emit>>

loaderVars == <<inputVars, pc, nsub, future, future_downloads, poolVars, calls, drainVars, cur,
                outputVars, completed>>

(***************************************************************************)
(* Widgets: state                                                          *)
(***************************************************************************)
VARIABLES
    entry_kind,        \* the filtered entry under test: "slug", "number" ("none": no entry)
    entry_buffer,      \* self.get_buffer(): its characters
    entry_insert,      \* the last do_insert_text call: what it passed on and returned
    grid_store,        \* EditableGrid.liststore: rows <<cell 0, cell 1>>
    grid_selection,    \* treeview.get_selection(): selected row (0: none)
    grid_last,         \* the last EditableGrid callback and what it did
    chooser_cfg,       \* FileChooserEntry: [warn_if_non_empty, warn_if_ntfs]
    chooser_text,      \* self.entry.get_text()
    path_completion,   \* self.path_completion: the rows of the list store
    chooser_children,  \* self.get_children()
    chooser_last       \* the last on_entry_changed call: what it raised, what it listed

entryVars == <<entry_kind, entry_buffer, entry_insert>>

gridVars == <<grid_store, grid_selection, grid_last>>

chooserVars == <<chooser_cfg, chooser_text, path_completion, chooser_children, chooser_last>>

widgetVars == <<entryVars, gridVars, chooserVars>>

vars == <<loaderVars, widgetVars>>

NoCall == [op |-> "none"]

\* No filtered entry has been built.
NoEntry ==
    /\ entry_kind = "none"
    /\ entry_buffer = <<>>
    /\ entry_insert = NoCall

\* No EditableGrid has been built.
NoGrid ==
    /\ grid_store = <<>>
    /\ grid_selection = 0
    /\ grid_last = NoCall

\* No FileChooserEntry has been built.
NoChooser ==
    /\ chooser_cfg = [warn_if_non_empty |-> FALSE, warn_if_ntfs |-> FALSE]
    /\ chooser_text = <<>>
    /\ path_completion = <<>>
    /\ chooser_children = [start |-> <<>>, end |-> <<>>]
    /\ chooser_last = NoCall

(***************************************************************************)
(* MediaLoader: operations                                                 *)
(***************************************************************************)
num_workers == 8

\* The i-th key and value of the media_urls dict.
Slug(i) == 100 + i

Url(i) == 200 + (i % 2)

\* The dict of n entries.
MediaUrls(n) == [i \in 1..n |-> <<Slug(i), Url(i)>>]

\* The path a successful service_media.download(slug, url) returns.
Path(slug, url) == <<"path", slug, url>>

\* What a service_media.download call does: return a path, raise an Exception,
\* raise a BaseException that is not an Exception (KeyboardInterrupt,
\* SystemExit), or not come back.
Behaviours == {"path", "raise", "raise_base", "hang"}

Futures == 1..Len(media_urls)

NoFuture == [state |-> "NONE", result |-> <<"none">>]

LoaderState(urls, service, at) ==
    /\ media_urls = urls
    /\ service_media = service
    /\ pc = at
    /\ nsub = 0
    /\ future = [f \in 1..Len(urls) |-> NoFuture]
    /\ future_downloads = <<>>
    /\ work_queue = <<>>
    /\ threads = 0
    /\ alive = 0
    /\ idle = 0
    /\ taken = {}
    /\ started = {}
    /\ running = {}
    /\ returned = {}
    /\ releasing = 0
    /\ calls = EmptyBag
    /\ ac_pending = {}
    /\ batch = <<>>
    /\ snapshot = {}
    /\ waiter_installed = FALSE
    /\ waiter_on = {}
    /\ waiter_finished = <<>>
    /\ cur = 0
    /\ emitted = <<>>
    /\ logged = <<>>
    /\ completed = <<>>
    /\ in_emit = 0

\* download_icons(urls, service) has just been called.
LoaderInit(urls, service) == LoaderState(urls, service, "submit")

\* No download_icons call is under way.
NoLoader == LoaderState(<<>>, <<>>, "idle")

\* ThreadPoolExecutor(max_workers=self.num_workers)
MaxWorkersUnbounded == Len(media_urls)

max_workers == num_workers

\* executor.submit(service_media.download, slug, url) up to
\* self._work_queue.put(w): the future is created and its work item queued.
Submit ==
    /\ pc = "submit"
    /\ nsub < Len(media_urls)
    /\ LET f == nsub + 1
           slug == media_urls[f][1]
           url == media_urls[f][2]
       IN /\ future' = [future EXCEPT ![f] = [state |-> "PENDING", result |-> <<"none">>]]
          /\ work_queue' = Append(work_queue, [future |-> f, args |-> <<slug, url>>])
    /\ pc' = "adjust"
    /\ UNCHANGED <<inputVars, nsub, future_downloads, threads, alive, idle, taken, started,
                   running, returned, releasing, calls, drainVars, cur, outputVars, completed>>
    /\ UNCHANGED widgetVars

\* ThreadPoolExecutor._adjust_thread_count: an idle worker is claimed, or else a
\* thread is started if fewer than max_workers are registered. t.start()
\* returns once the thread runs; it is registered by the statement after it.
AdjustThreadCount ==
    IF idle > 0
    THEN /\ idle' = idle - 1
         /\ pc' = "return"
         /\ UNCHANGED alive
    ELSE IF threads < max_workers
         THEN /\ alive' = alive + 1
              /\ pc' = "add"
              /\ UNCHANGED idle
         ELSE /\ pc' = "return"
              /\ UNCHANGED <<idle, alive>>

\* submit: self._adjust_thread_count(), up to the return of t.start().
Adjust ==
    /\ pc = "adjust"
    /\ AdjustThreadCount
    /\ UNCHANGED <<inputVars, nsub, future, future_downloads, work_queue, threads, taken,
                   started, running, returned, releasing, calls, drainVars, cur, outputVars,
                   completed>>
    /\ UNCHANGED widgetVars

\* _adjust_thread_count: self._threads.add(t)
AddThread ==
    /\ pc = "add"
    /\ threads' = threads + 1
    /\ pc' = "return"
    /\ UNCHANGED <<inputVars, nsub, future, future_downloads, work_queue, alive, idle, taken,
                   started, running, returned, releasing, calls, drainVars, cur, outputVars,
                   completed>>
    /\ UNCHANGED widgetVars

\* submit returns the future, which the comprehension stores under its slug.
SubmitReturn ==
    /\ pc = "return"
    /\ future_downloads' = Append(future_downloads, media_urls[nsub + 1][1])
    /\ nsub' = nsub + 1
    /\ pc' = "submit"
    /\ UNCHANGED <<inputVars, future, poolVars, calls, drainVars, cur, outputVars, completed>>
    /\ UNCHANGED widgetVars

\* Workers that hold a work item or have not yet released the semaphore.
Busy == Cardinality(taken) + Cardinality(started) + Cardinality(running)
        + Cardinality(returned) + releasing

\* _worker: work_item = work_queue.get(block=True) in a worker waiting there.
Get ==
    /\ work_queue # <<>>
    /\ Busy < alive
    /\ taken' = taken \cup {Head(work_queue).future}
    /\ work_queue' = Tail(work_queue)
    /\ UNCHANGED <<inputVars, pc, nsub, future, future_downloads, threads, alive, idle,
                   started, running, returned, releasing, calls, drainVars, cur, outputVars,
                   completed>>
    /\ UNCHANGED widgetVars

\* _WorkItem.run: self.future.set_running_or_notify_cancel()
SetRunning ==
    \E f \in taken :
        /\ future' = [future EXCEPT ![f].state = "RUNNING"]
        /\ taken' = taken \ {f}
        /\ started' = started \cup {f}
        /\ UNCHANGED <<inputVars, pc, nsub, future_downloads, work_queue, threads, alive,
                       idle, running, returned, releasing, calls, drainVars, cur, outputVars,
                       completed>>
        /\ UNCHANGED widgetVars

\* _WorkItem.run: self.fn(*self.args), the call of service_media.download(slug, url).
Start ==
    \E f \in started :
        /\ calls' = calls (+) SetToBag({media_urls[f]})
        /\ started' = started \ {f}
        /\ running' = running \cup {f}
        /\ UNCHANGED <<inputVars, pc, nsub, future, future_downloads, work_queue, threads,
                       alive, idle, taken, returned, releasing, drainVars, cur, outputVars,
                       completed>>
        /\ UNCHANGED widgetVars

\* service_media.download returns or raises in the worker that called it.
Finish ==
    \E f \in running :
        /\ service_media[f] # "hang"
        /\ running' = running \ {f}
        /\ returned' = returned \cup {f}
        /\ UNCHANGED <<inputVars, pc, nsub, future, future_downloads, work_queue, threads,
                       alive, idle, taken, started, releasing, calls, drainVars, cur,
                       outputVars, completed>>
        /\ UNCHANGED widgetVars

\* What the future of download f is finished with: future.set_result(result),
\* or future.set_exception(exc) for whatever BaseException the download raised.
Outcome(f) ==
    IF service_media[f] = "path"
    THEN <<"result", Path(media_urls[f][1], media_urls[f][2])>>
    ELSE IF service_media[f] = "raise" THEN <<"exception">> ELSE <<"base_exception">>

\* A download that raised is run again instead of being reported.
WorkerDoneRetry(f) ==
    IF service_media[f] = "raise"
    THEN /\ calls' = calls (+) SetToBag({media_urls[f]})
         /\ returned' = returned \ {f}
         /\ running' = running \cup {f}
         /\ UNCHANGED <<future, releasing, waiter_finished, completed>>
    ELSE /\ future' = [future EXCEPT ![f] = [state |-> "FINISHED", result |-> Outcome(f)]]
         /\ returned' = returned \ {f}
         /\ releasing' = releasing + 1
         /\ waiter_finished' = IF f \in waiter_on THEN Append(waiter_finished, f)
                               ELSE waiter_finished
         /\ completed' = Append(completed, f)
         /\ UNCHANGED <<calls, running>>

\* _WorkItem.run after fn returned or raised: future.set_result or
\* set_exception, which under the future's condition finishes the future and
\* tells the as_completed waiter if the future still holds it. The worker has
\* yet to release the idle semaphore.
WorkerDone(f) ==
    /\ future' = [future EXCEPT ![f] = [state |-> "FINISHED", result |-> Outcome(f)]]
    /\ returned' = returned \ {f}
    /\ releasing' = releasing + 1
    /\ waiter_finished' = IF f \in waiter_on THEN Append(waiter_finished, f)
                          ELSE waiter_finished
    /\ completed' = Append(completed, f)
    /\ UNCHANGED <<calls, running>>

\* _WorkItem.run: the future of a download that is over is finished.
SetResult ==
    \E f \in returned :
        /\ WorkerDone(f)
        /\ UNCHANGED <<inputVars, pc, nsub, future_downloads, work_queue, threads, alive,
                       idle, taken, started, ac_pending, batch, snapshot, waiter_installed,
                       waiter_on, cur, outputVars>>
        /\ UNCHANGED widgetVars

\* _worker after work_item.run(): executor._idle_semaphore.release(), then
\* back to work_queue.get.
Release ==
    /\ releasing > 0
    /\ idle' = idle + 1
    /\ releasing' = releasing - 1
    /\ UNCHANGED <<inputVars, pc, nsub, future, future_downloads, work_queue, threads, alive,
                   taken, started, running, returned, calls, drainVars, cur, outputVars,
                   completed>>
    /\ UNCHANGED widgetVars

\* as_completed(future_downloads) up to its first yield: the futures already
\* finished are listed in set order, the others are pending, the waiter is
\* installed on every future.
AsCompleted ==
    /\ pc = "submit"
    /\ nsub = Len(media_urls)
    /\ LET finished == {f \in Futures : future[f].state = "FINISHED"}
       IN /\ batch' \in Listings(finished)
          /\ ac_pending' = Futures \ finished
          /\ snapshot' = finished
    /\ waiter_installed' = TRUE
    /\ waiter_on' = Futures
    /\ waiter_finished' = <<>>
    /\ pc' = "yield"
    /\ UNCHANGED <<inputVars, nsub, future, future_downloads, poolVars, calls, cur, outputVars,
                   completed>>
    /\ UNCHANGED widgetVars

\* The batch is yielded in the order the waiter recorded, without the reverse().
NextBatchUnreversed == waiter_finished

\* as_completed: finished = waiter.finished_futures; finished.reverse()
NextBatch == Reverse(waiter_finished)

\* as_completed: waiter.event.wait() returned; take what finished meanwhile.
WaitBatch ==
    /\ pc = "yield"
    /\ batch = <<>>
    /\ ac_pending # {}
    /\ waiter_finished # <<>>
    /\ batch' = NextBatch
    /\ waiter_finished' = <<>>
    /\ UNCHANGED <<inputVars, pc, nsub, future, future_downloads, poolVars, calls, ac_pending,
                   snapshot, waiter_installed, waiter_on, cur, outputVars, completed>>
    /\ UNCHANGED widgetVars

\* _yield_finished_futures: the future the loop is handed next (fs[-1], then fs.pop()).
Yieldable == IF batch # <<>> THEN {Last(batch)} ELSE {}

\* with f._condition: f._waiters.remove(waiter)
RemoveWaiter(f) == waiter_on' = waiter_on \ {f}

\* for future in as_completed(...): the next future is taken off the waiter and
\* yielded.
YieldNext ==
    /\ pc = "yield"
    /\ \E f \in Yieldable :
        /\ cur' = f
        /\ batch' = Front(batch)
        /\ ac_pending' = ac_pending \ {f}
        /\ RemoveWaiter(f)
    /\ pc' = "handle"
    /\ UNCHANGED <<inputVars, nsub, future, future_downloads, poolVars, calls, snapshot,
                   waiter_installed, waiter_finished, outputVars, completed>>
    /\ UNCHANGED widgetVars

\* as_completed is exhausted: nothing left to yield, `while pending` is false.
LoopExhausted == batch = <<>> /\ ac_pending = {}

\* The generator is exhausted (its finally finds no future left and takes no
\* lock; the waiter goes with the generator) and the for loop ends, the loop
\* variable keeping the last future; the with block is left
\* (executor.shutdown(wait=True) begins).
LoopExit ==
    /\ pc = "yield"
    /\ LoopExhausted
    /\ waiter_installed' = FALSE
    /\ pc' = "shutdown"
    /\ UNCHANGED <<inputVars, nsub, future, future_downloads, poolVars, calls, ac_pending,
                   batch, snapshot, waiter_on, waiter_finished, cur, outputVars, completed>>
    /\ UNCHANGED widgetVars

\* The slug emitted is the one the comprehension's loop variable was left at.
HandleResultStaleSlug ==
    LET r == future[cur].result
    IN IF r[1] = "result"
       THEN /\ emitted' = Append(emitted, [slug |-> future_downloads[Len(future_downloads)],
                                           path |-> r[2], thread |-> "main"])
            /\ in_emit' = in_emit + 1
            /\ pc' = "emit"
            /\ UNCHANGED logged
       ELSE IF r[1] = "exception"
            THEN /\ logged' = Append(logged, future_downloads[cur])
                 /\ pc' = "yield"
                 /\ UNCHANGED <<emitted, in_emit>>
            ELSE /\ pc' = "finally"
                 /\ UNCHANGED <<logged, emitted, in_emit>>

\* slug = future_downloads[future]; try: path = future.result()
\* except Exception: logger.exception(...)  else: self.emit("icon-loaded", slug, path)
\* future.result() returns the result or re-raises the exception the future
\* holds; one that is not an Exception is not caught and leaves the loop,
\* which closes the as_completed generator (its finally runs).
HandleResult ==
    LET r == future[cur].result
    IN IF r[1] = "result"
       THEN /\ emitted' = Append(emitted, [slug |-> future_downloads[cur], path |-> r[2],
                                           thread |-> "main"])
            /\ in_emit' = in_emit + 1
            /\ pc' = "emit"
            /\ UNCHANGED logged
       ELSE IF r[1] = "exception"
            THEN /\ logged' = Append(logged, future_downloads[cur])
                 /\ pc' = "yield"
                 /\ UNCHANGED <<emitted, in_emit>>
            ELSE /\ pc' = "finally"
                 /\ UNCHANGED <<logged, emitted, in_emit>>

\* The loop body, up to the return of logger.exception, the start of emit or
\* the exception leaving the loop (the generator is about to be closed).
Handle ==
    /\ pc = "handle"
    /\ HandleResult
    /\ UNCHANGED <<inputVars, nsub, future, future_downloads, poolVars, calls, drainVars, cur,
                   completed>>
    /\ UNCHANGED widgetVars

\* as_completed closed by the exception, its finally: `for f in fs` takes the
\* waiter off one more of the futures not yet yielded, in the order of the set,
\* each under that future's condition; when none is left the generator is
\* over, the waiter goes with it and the exception reaches the with block
\* (executor.shutdown(wait=True) begins).
Finally ==
    /\ pc = "finally"
    /\ IF waiter_on # {}
       THEN /\ \E f \in waiter_on : RemoveWaiter(f)
            /\ UNCHANGED <<pc, waiter_installed>>
       ELSE /\ waiter_installed' = FALSE
            /\ pc' = "unwind"
            /\ UNCHANGED waiter_on
    /\ UNCHANGED <<inputVars, nsub, future, future_downloads, poolVars, calls, ac_pending,
                   batch, snapshot, waiter_finished, cur, outputVars, completed>>
    /\ UNCHANGED widgetVars

\* self.emit returns (the signal's handlers have run in the emitting thread).
EmitReturn ==
    /\ pc = "emit"
    /\ in_emit' = in_emit - 1
    /\ pc' = "yield"
    /\ UNCHANGED <<inputVars, nsub, future, future_downloads, poolVars, calls, drainVars, cur,
                   emitted, logged, completed>>
    /\ UNCHANGED widgetVars

\* shutdown(wait=True) has joined the workers: they exit once the queue is
\* drained and each is back at work_queue.get. Queued work is not cancelled.
Joined == work_queue = <<>> /\ Busy = 0

\* ThreadPoolExecutor.__exit__ at the end of the with block; download_icons returns.
Shutdown ==
    /\ pc = "shutdown"
    /\ Joined
    /\ pc' = "done"
    /\ UNCHANGED <<inputVars, nsub, future, future_downloads, poolVars, calls, drainVars, cur,
                   outputVars, completed>>
    /\ UNCHANGED widgetVars

\* ThreadPoolExecutor.__exit__ while an exception leaves the with block: the
\* workers are joined all the same, then the exception leaves download_icons.
Reraise ==
    /\ pc = "unwind"
    /\ Joined
    /\ pc' = "raised"
    /\ UNCHANGED <<inputVars, nsub, future, future_downloads, poolVars, calls, drainVars, cur,
                   outputVars, completed>>
    /\ UNCHANGED widgetVars

\* The steps of the thread that called download_icons.
MainStep == Submit \/ Adjust \/ AddThread \/ SubmitReturn \/ AsCompleted \/ WaitBatch
            \/ YieldNext \/ LoopExit \/ Handle \/ Finally \/ EmitReturn \/ Shutdown \/ Reraise

\* The steps of the executor's worker threads.
WorkerStep == Get \/ SetRunning \/ Start \/ Finish \/ SetResult \/ Release

\* Dicts of three entries followed besides the small ones: a failure between
\* two successes, a download that never comes back submitted before two that
\* do, and an exception that is not an Exception before a success and a failure.
MixedServices == {<<"path", "raise", "path">>, <<"hang", "path", "path">>,
                  <<"raise_base", "path", "raise">>}

\* download_icons(media_urls, service_media) on a dict of at most MaxUrls
\* entries whose downloads behave in every way, or on one of the mixed dicts.
Init ==
    \E service \in UNION {[1..n -> Behaviours] : n \in 0..MaxUrls} \cup MixedServices :
        LoaderInit(MediaUrls(Len(service)), service) /\ NoEntry /\ NoGrid /\ NoChooser

Next == Submit \/ Adjust \/ AddThread \/ SubmitReturn \/ AsCompleted \/ WaitBatch
        \/ YieldNext \/ LoopExit \/ Handle \/ Finally \/ EmitReturn \/ Shutdown \/ Reraise
        \/ Get \/ SetRunning \/ Start \/ Finish \/ SetResult \/ Release

Spec == Init /\ [][Next]_vars

\* download_icons on a dict of at most FairUrls entries.
InitFair ==
    \E n \in 0..FairUrls : \E service \in [1..n -> Behaviours] :
        LoaderInit(MediaUrls(n), service) /\ NoEntry /\ NoGrid /\ NoChooser

\* The caller's thread and the workers are scheduled; a download that does not
\* hang returns or raises.
FairSpec == InitFair /\ [][Next]_vars /\ WF_vars(MainStep) /\ WF_vars(WorkerStep)

\* Dicts of PoolUrls entries whose downloads do not come back while observed,
\* except that the first may return a path.
PoolServices == {<<first>> \o [i \in 1..(PoolUrls - 1) |-> "hang"] : first \in {"path", "hang"}}

\* download_icons on a dict of PoolUrls entries, or on a dict of one entry
\* whose download behaves in any way.
InitPool ==
    \E service \in PoolServices \cup {<<first>> : first \in Behaviours} :
        LoaderInit(MediaUrls(Len(service)), service) /\ NoEntry /\ NoGrid /\ NoChooser

SpecPool == InitPool /\ [][Next]_vars

(***************************************************************************)
(* MediaLoader: properties                                                 *)
(***************************************************************************)
Finished(f) == future[f].state = "FINISHED"

SlugOf(f) == media_urls[f][1]

FutureOf(slug) == CHOOSE f \in Futures : media_urls[f][1] = slug

EmissionsOf(f) == {i \in 1..Len(emitted) : emitted[i].slug = SlugOf(f)}

LogsOf(f) == {i \in 1..Len(logged) : logged[i] = SlugOf(f)}

\* Number of service_media.download calls made for entry f.
CallsOf(f) == CopiesIn(media_urls[f], calls)

CompletedPos(f) == CHOOSE i \in 1..Len(completed) : completed[i] = f

\* download_icons is over: it has returned, or an exception has left it.
Ended == pc \in {"done", "raised"}

\* C1: at no time have more than num_workers = 8 service_media.download calls
\* started and not yet finished, however many entries media_urls has.
C1_BoundedInFlight ==
    /\ BagCardinality(calls) - (Cardinality(returned) + Len(completed)) <= 8
    /\ Cardinality(running) <= num_workers

\* More than 8 entries, all 8 workers downloading, one download already over
\* and a ninth begun in its place.
C1_Witness ==
    /\ Len(media_urls) > num_workers
    /\ Cardinality(running) = num_workers
    /\ BagCardinality(calls) > num_workers

\* C2: service_media.download is called with the entries of media_urls only,
\* never twice for an entry, and by the time download_icons is over once for
\* every entry, whatever the other entries' downloads did.
C2_DownloadedOnce ==
    /\ \A c \in BagToSet(calls) : \E f \in Futures : c = media_urls[f]
    /\ \A f \in Futures : CallsOf(f) <= 1
    /\ Ended => \A f \in Futures : CallsOf(f) = 1

\* download_icons has returned, a download raised and another, submitted
\* after it, was still made.
C2_Witness ==
    /\ pc = "done"
    /\ \E f, g \in Futures : f < g /\ service_media[f] = "raise" /\ CallsOf(g) = 1

\* C3: an emission carries a slug whose download returned, with the path that
\* download returned; a logged failure is of a slug whose download raised;
\* and when download_icons returns every slug has exactly one outcome.
C3_OneOutcomePerSlug ==
    /\ \A i \in 1..Len(emitted) : \E f \in Futures :
           /\ emitted[i].slug = SlugOf(f)
           /\ service_media[f] = "path"
           /\ emitted[i].path = Path(media_urls[f][1], media_urls[f][2])
    /\ \A i \in 1..Len(logged) : \E f \in Futures :
           logged[i] = SlugOf(f) /\ service_media[f] = "raise"
    /\ \A f \in Futures : Cardinality(EmissionsOf(f)) + Cardinality(LogsOf(f)) <= 1
    /\ pc = "done" => \A f \in Futures :
           Cardinality(EmissionsOf(f)) + Cardinality(LogsOf(f)) = 1

\* download_icons has returned after two downloads that returned paths and
\* one that raised.
C3_Witness ==
    /\ pc = "done"
    /\ Len(emitted) >= 2
    /\ Len(logged) >= 1

\* C4: an exception raised by a download never leaves download_icons: it is
\* logged when its future is handled and the loop goes on, so that when
\* download_icons is over every download that raised was logged and every
\* download that returned a path was emitted.
C4_FailureDoesNotAbort ==
    /\ pc # "raised"
    /\ \A f \in Futures :
           (service_media[f] \in {"raise", "raise_base"} /\ cur = f /\ pc \notin {"handle", "emit"})
               => LogsOf(f) # {}
    /\ Ended => \A f \in Futures :
           /\ service_media[f] = "path" => EmissionsOf(f) # {}
           /\ service_media[f] \in {"raise", "raise_base"} => LogsOf(f) # {}

\* Every submitted download has finished and the pool holds no work.
PoolDone ==
    /\ \A f \in Futures : Finished(f)
    /\ work_queue = <<>>
    /\ taken \cup started \cup running \cup returned = {}

\* Every submitted download has finished and been emitted or logged, and the
\* pool holds no work.
AllHandled ==
    /\ PoolDone
    /\ \A f \in Futures : EmissionsOf(f) # {} \/ LogsOf(f) # {}

\* C5: download_icons has returned only if every download has finished and
\* been handled and the pool is empty; and if no download hangs it returns.
C5_ReturnsWhenAllDone ==
    /\ [](pc = "done" => AllHandled)
    /\ (\A f \in Futures : service_media[f] # "hang") => <>(pc = "done")

\* The emissions are made by the caller's thread, one at a time, each of a
\* finished download, and a finished download the loop knows of is handed to
\* the loop whatever the other downloads do.
EmittedByCaller ==
    /\ \A i \in 1..Len(emitted) :
           emitted[i].thread = "main" /\ Finished(FutureOf(emitted[i].slug))
    /\ in_emit <= 1
    /\ (pc = "yield" /\ (batch # <<>> \/ waiter_finished # <<>>)) =>
           (Yieldable # {} \/ (batch = <<>> /\ ac_pending # {}))

\* C6 as stated: the emissions are relayed one by one by the calling thread,
\* each after its own download finished and without waiting for downloads
\* still running, in the order in which the downloads finished.
C6_EmittedInCompletionOrder ==
    /\ EmittedByCaller
    /\ \A i, j \in 1..Len(emitted) :
           i < j => CompletedPos(FutureOf(emitted[i].slug))
                        < CompletedPos(FutureOf(emitted[j].slug))

\* An emission is made by a step of the loop body of the thread that called
\* download_icons, on the future it was handed, which is finished, and while
\* no other emission is under way; no other step emits.
EmissionStep ==
    emitted' # emitted =>
        /\ pc = "handle" /\ pc' = "emit"
        /\ in_emit = 0
        /\ Finished(cur)
        /\ emitted' = Append(emitted, Last(emitted'))
        /\ Last(emitted').slug = SlugOf(cur)

\* The emissions follow the order of completion among the downloads that
\* finished after the loop began to drain; those found finished at that time
\* are emitted before them.
DrainOrder ==
    /\ \A i, j \in 1..Len(emitted) :
           LET fi == FutureOf(emitted[i].slug)
               fj == FutureOf(emitted[j].slug)
           IN i < j =>
                  /\ fj \in snapshot => fi \in snapshot
                  /\ (fi \notin snapshot /\ fj \notin snapshot) =>
                         CompletedPos(fi) < CompletedPos(fj)

\* C6, amended: the emissions are relayed one by one by steps of the calling
\* thread only, each after its own download finished and without waiting for
\* downloads still running; their order is the order of completion only among
\* the downloads that finish after the loop has begun to drain, those found
\* finished at that time being emitted before them, in no particular order.
C6_EmittedAsDrained ==
    /\ [](EmittedByCaller /\ DrainOrder)
    /\ [][EmissionStep]_vars

\* A download submitted later has been emitted while one submitted before it
\* is still running, and two downloads that finished while the loop was
\* draining have been emitted in the order they finished.
C6_Witness ==
    /\ \E i \in 1..Len(emitted) : \E f \in Futures :
           f < FutureOf(emitted[i].slug) /\ future[f].state = "RUNNING"
    /\ \E i, j \in 1..Len(emitted) :
           /\ i < j
           /\ FutureOf(emitted[i].slug) \notin snapshot
           /\ FutureOf(emitted[j].slug) \notin snapshot

(***************************************************************************)
(* SlugEntry and NumberEntry                                               *)
(***************************************************************************)
\* Longest new_text handed to do_insert_text.
MaxInsert == 2
\* Longest buffer content followed.
MaxBuffer == 3

\* The characters typed or pasted into the entries.
EntryChars == {"1", "7", "a", "A", "Z", "-", "_", " "}

Digits == {"0", "1", "2", "3", "4", "5", "6", "7", "8", "9"}

LowerLetters == {"a", "z"}

UpperLetters == {"A", "Z"}

\* str.isnumeric
IsNumeric(c) == c \in Digits

\* str.isalnum
IsAlnum(c) == c \in Digits \cup LowerLetters \cup UpperLetters

\* str.lower, one character
Lower(c) == CASE c = "A" -> "a" [] c = "Z" -> "z" [] OTHER -> c

\* Sequences over S of length at most n.
SeqsUpTo(S, n) == UNION {[1..k -> S] : k \in 0..n}

SlugAccepted(c) == IsAlnum(c) \/ c = "-"

\* "".join([c for c in new_text if c.isalnum() or c == "-"]).lower()
SlugFilter(new_text) ==
    LET kept == SelectSeq(new_text, SlugAccepted)
    IN [i \in 1..Len(kept) |-> Lower(kept[i])]

\* "".join([c for c in new_text if c.isnumeric()])
NumberFilter(new_text) == SelectSeq(new_text, IsNumeric)

\* What lies behind the string's terminator when more characters are asked for
\* than the string has: the terminator itself, then whatever memory holds.
Overrun(k) ==
    {g \in [1..k -> EntryChars \cup {"NUL"}] : k > 0 => g[1] = "NUL"}

\* Gtk.EntryBuffer.insert_text(position, chars, n_chars): n_chars characters
\* read from chars are put at position.
BufferInsert(buf, position, chars, n_chars, beyond) ==
    LET at == IF position > Len(buf) THEN Len(buf) ELSE position
        read == IF n_chars <= Len(chars) THEN SubSeq(chars, 1, n_chars) ELSE chars \o beyond
    IN SubSeq(buf, 1, at) \o read \o SubSeq(buf, at + 1, Len(buf))

\* SlugEntry.do_insert_text(new_text, length, position)
SlugDoInsertText ==
    /\ entry_kind = "slug"
    /\ \E given \in SeqsUpTo(EntryChars, MaxInsert), position \in 0..Len(entry_buffer) :
        LET new_text == SlugFilter(given)
            length == Len(new_text)
        IN /\ Len(entry_buffer) + length <= MaxBuffer
           /\ entry_buffer' = BufferInsert(entry_buffer, position, new_text, length, <<>>)
           /\ entry_insert' = [op |-> "insert", given |-> given, called |-> TRUE,
                               text |-> new_text, length |-> length,
                               position |-> position, ret |-> position + length]
    /\ UNCHANGED <<entry_kind, loaderVars, gridVars, chooserVars>>

\* NumberEntry.do_insert_text(new_text, length, position)
NumberDoInsertText ==
    /\ entry_kind = "number"
    /\ \E given \in SeqsUpTo(EntryChars, MaxInsert), position \in 0..Len(entry_buffer) :
        LET new_text == NumberFilter(given)
            length == Len(given)
        IN IF new_text # <<>>
           THEN /\ Len(entry_buffer) + length <= MaxBuffer
                /\ \E beyond \in Overrun(length - Len(new_text)) :
                       entry_buffer' = BufferInsert(entry_buffer, position, new_text,
                                                    length, beyond)
                /\ entry_insert' = [op |-> "insert", given |-> given, called |-> TRUE,
                                    text |-> new_text, length |-> length,
                                    position |-> position, ret |-> position + length]
           ELSE /\ entry_buffer' = entry_buffer
                /\ entry_insert' = [op |-> "insert", given |-> given, called |-> FALSE,
                                    text |-> new_text, length |-> length,
                                    position |-> position, ret |-> position]
    /\ UNCHANGED <<entry_kind, loaderVars, gridVars, chooserVars>>

\* A SlugEntry or a NumberEntry with an empty buffer.
InitEntry ==
    /\ entry_kind \in {"slug", "number"}
    /\ entry_buffer = <<>>
    /\ entry_insert = NoCall
    /\ NoLoader /\ NoGrid /\ NoChooser

NextEntry == SlugDoInsertText \/ NumberDoInsertText

SpecEntry == InitEntry /\ [][NextEntry]_vars

\* The characters each entry is meant to accept.
Accepted(kind, c) ==
    IF kind = "number" THEN c \in Digits ELSE c \in Digits \cup LowerLetters \cup {"-"}

\* C9: whatever text is inserted into a NumberEntry or a SlugEntry, the text
\* handed to the buffer holds accepted characters only, the length handed to
\* the buffer is the length of that text, and the position returned is the
\* given position plus the number of characters inserted.
C9_InsertFiltered ==
    entry_insert.op = "insert" =>
        /\ \A i \in 1..Len(entry_insert.text) : Accepted(entry_kind, entry_insert.text[i])
        /\ entry_insert.called => entry_insert.length = Len(entry_insert.text)
        /\ entry_insert.ret = entry_insert.position
               + (IF entry_insert.called THEN Len(entry_insert.text) ELSE 0)

(***************************************************************************)
(* EditableGrid                                                            *)
(***************************************************************************)
\* Most rows the list store is followed to.
MaxRows == 2

\* The texts a cell editor hands to on_text_edited.
CellTexts == {<<>>, <<"x">>, <<" ", "x">>, <<"x", " ">>, <<" ">>, <<"x", " ", "y">>}

IsSpace(c) == c = " "

\* str.strip
RECURSIVE LStrip(_)
LStrip(t) == IF t # <<>> /\ IsSpace(Head(t)) THEN LStrip(Tail(t)) ELSE t

Strip(t) == Reverse(LStrip(Reverse(LStrip(t))))

RemoveAt(q, i) == SubSeq(q, 1, i - 1) \o SubSeq(q, i + 1, Len(q))

\* EditableGrid.on_add
OnAdd ==
    /\ Len(grid_store) < MaxRows
    /\ grid_store' = Append(grid_store, <<<<>>, <<>>>>)
    /\ grid_selection' = Len(grid_store) + 1
    /\ grid_last' = [op |-> "add", before |-> grid_store, selected |-> grid_selection,
                     raised |-> "none", changed |-> 1]
    /\ UNCHANGED <<loaderVars, entryVars, chooserVars>>

\* EditableGrid.on_delete
OnDelete ==
    /\ IF grid_selection = 0
       THEN \* liststore.remove(None)
            /\ grid_last' = [op |-> "delete", before |-> grid_store,
                             selected |-> grid_selection, raised |-> "TypeError",
                             changed |-> 0]
            /\ UNCHANGED <<grid_store, grid_selection>>
       ELSE /\ grid_store' = RemoveAt(grid_store, grid_selection)
            /\ grid_selection' \in {0} \cup ({grid_selection} \cap (1..(Len(grid_store) - 1)))
            /\ grid_last' = [op |-> "delete", before |-> grid_store,
                             selected |-> grid_selection, raised |-> "none", changed |-> 1]
    /\ UNCHANGED <<loaderVars, entryVars, chooserVars>>

\* EditableGrid.on_text_edited(widget, path, text, field)
OnTextEdited ==
    /\ \E path \in 1..Len(grid_store), field \in 1..2, text \in CellTexts :
        /\ grid_store' = [grid_store EXCEPT ![path][field] = Strip(text)]
        /\ grid_last' = [op |-> "edit", before |-> grid_store, selected |-> grid_selection,
                         raised |-> "none", changed |-> 1, path |-> path, field |-> field,
                         text |-> text]
    /\ UNCHANGED <<grid_selection, loaderVars, entryVars, chooserVars>>

\* The user selects a row of the tree view, or clears the selection.
SelectRow ==
    /\ \E row \in 0..Len(grid_store) :
        /\ row # grid_selection
        /\ grid_selection' = row
    /\ UNCHANGED <<grid_store, grid_last, loaderVars, entryVars, chooserVars>>

\* EditableGrid(data, columns) built on no row or on one row.
InitGrid ==
    /\ grid_store \in {<<>>, <<<<<<"k">>, <<"v">>>>>>}
    /\ grid_selection = 0
    /\ grid_last = NoCall
    /\ NoLoader /\ NoEntry /\ NoChooser

NextGrid == OnAdd \/ OnDelete \/ OnTextEdited \/ SelectRow

SpecGrid == InitGrid /\ [][NextGrid]_vars

\* C10: every EditableGrid callback ends without an error and emits "changed"
\* once; on_add appends the row ["", ""], on_text_edited replaces the
\* addressed cell by the stripped text and nothing else, on_delete removes
\* the selected row, and on_delete without a selected row leaves the list
\* store as it was.
C10_GridCallbacks ==
    grid_last.op # "none" =>
        /\ grid_last.raised = "none"
        /\ grid_last.changed = 1
        /\ grid_last.op = "add" => grid_store = Append(grid_last.before, <<<<>>, <<>>>>)
        /\ grid_last.op = "edit" =>
               /\ Len(grid_store) = Len(grid_last.before)
               /\ \A row \in 1..Len(grid_store), field \in 1..2 :
                      grid_store[row][field] =
                          IF row = grid_last.path /\ field = grid_last.field
                          THEN Strip(grid_last.text)
                          ELSE grid_last.before[row][field]
        /\ grid_last.op = "delete" =>
               grid_store = IF grid_last.selected = 0 THEN grid_last.before
                            ELSE RemoveAt(grid_last.before, grid_last.selected)

(***************************************************************************)
(* FileChooserEntry                                                        *)
(***************************************************************************)
\* Longest entry text typed.
MaxText == 4
\* Longest name of the files of the big directory.
MaxName == 4

max_completion_items == 15

\* The characters of the entry texts.
PathChars == {"/", ".", "~", "a", "b"}

\* Code points, for the order sorted() puts names in.
Ord(c) == CASE c = "." -> 46 [] c = "/" -> 47 [] c = "a" -> 97 [] c = "b" -> 98 [] c = "~" -> 126

\* The file system the widget looks at. A node is the sequence of the names
\* leading to it from the root; /a is a writable directory of many files (every
\* name of 2 to MaxName letters a and b) and one hidden file, /b a mounted Windows drive holding the file /b/a and the
\* empty directory /b/b, which the user may not write to.
BigDir == <<<<"a">>>>

WinDir == <<<<"b">>>>

BigDirNames == UNION {[1..k -> {"a", "b"}] : k \in 2..MaxName} \cup {<<".", "a">>}

Dirs == {<<>>, BigDir, WinDir, WinDir \o <<<<"b">>>>}

Files == {BigDir \o <<n>> : n \in BigDirNames} \cup {WinDir \o <<<<"a">>>>}

NotWritable == {<<>>, WinDir \o <<<<"b">>>>}

\* The nodes below the mount point of the Windows drive.
OnNtfs(node) == Len(node) >= 1 /\ node[1] = WinDir[1]

\* The process's working directory and the user's home directory.
Cwd == <<>>

Home == <<"/", "a">>

NoNode == <<<<"/">>>>

IndexOfSlash(t) == IF \E i \in 1..Len(t) : t[i] = "/"
                   THEN CHOOSE i \in 1..Len(t) : t[i] = "/" /\ \A j \in 1..(i - 1) : t[j] # "/"
                   ELSE 0

\* text.split("/")
RECURSIVE Components(_)
Components(t) ==
    LET i == IndexOfSlash(t)
    IN IF i = 0 THEN <<t>>
       ELSE <<SubSeq(t, 1, i - 1)>> \o Components(SubSeq(t, i + 1, Len(t)))

\* The kernel's walk along the components of a path, from node at.
RECURSIVE Walk(_, _)
Walk(at, comps) ==
    IF comps = <<>> THEN at
    ELSE IF at \notin Dirs THEN NoNode
    ELSE LET c == Head(comps)
         IN IF c = <<>> \/ c = <<".">> THEN Walk(at, Tail(comps))
            ELSE IF c = <<".", ".">>
                 THEN Walk(IF at = <<>> THEN at ELSE Front(at), Tail(comps))
            ELSE IF (at \o <<c>>) \in Dirs \cup Files THEN Walk(at \o <<c>>, Tail(comps))
            ELSE NoNode

\* The node a path names (NoNode: none).
Resolve(path) ==
    IF path = <<>> THEN NoNode
    ELSE IF Head(path) = "/" THEN Walk(<<>>, Components(path))
    ELSE Walk(Cwd, Components(path))

\* os.path.exists, os.path.isdir, os.path.isfile
Exists(path) == Resolve(path) # NoNode

IsDir(path) == Resolve(path) \in Dirs

IsFile(path) == Resolve(path) \in Files

\* os.path.expanduser (no other user's home is known)
ExpandUser(path) ==
    IF path # <<>> /\ Head(path) = "~" /\ (Len(path) = 1 \/ path[2] = "/")
    THEN Home \o Tail(path)
    ELSE path

RECURSIVE RStripSlash(_)
RStripSlash(t) == IF t # <<>> /\ Last(t) = "/" THEN RStripSlash(Front(t)) ELSE t

\* os.path.split
Split(path) ==
    LET slashes == {i \in 1..Len(path) : path[i] = "/"}
        i == IF slashes = {} THEN 0 ELSE CHOOSE k \in slashes : \A j \in slashes : j <= k
        head == SubSeq(path, 1, i)
        tail == SubSeq(path, i + 1, Len(path))
    IN <<IF RStripSlash(head) # <<>> THEN RStripSlash(head) ELSE head, tail>>

\* os.path.dirname
Dirname(path) == Split(path)[1]

\* os.path.join(a, b), b a file name
Join(a, b) ==
    IF a = <<>> \/ Last(a) = "/" THEN a \o b ELSE a \o <<"/">> \o b

\* str.startswith
StartsWith(t, prefix) ==
    Len(prefix) <= Len(t) /\ SubSeq(t, 1, Len(prefix)) = prefix

\* os.listdir of a directory node: the names in it.
ListDir(node) == {Last(m) : m \in {m \in Dirs \cup Files : Len(m) = Len(node) + 1 /\ Front(m) = node}}

\* The order of str: by code point, a prefix before its extensions.
StrLess(x, y) ==
    LET n == IF Len(x) < Len(y) THEN Len(x) ELSE Len(y)
        diff == {i \in 1..n : x[i] # y[i]}
    IN IF diff = {} THEN Len(x) < Len(y)
       ELSE LET i == CHOOSE k \in diff : \A j \in diff : k <= j
            IN Ord(x[i]) < Ord(y[i])

\* One name put at its place in a sorted list.
RECURSIVE Insert(_, _)
Insert(name, list) ==
    IF list = <<>> THEN <<name>>
    ELSE IF StrLess(name, Head(list)) THEN <<name>> \o list
    ELSE <<Head(list)>> \o Insert(name, Tail(list))

\* sorted(names)
RECURSIVE Sorted(_)
Sorted(names) ==
    IF names = {} THEN <<>>
    ELSE LET name == CHOOSE name \in names : TRUE
         IN Insert(name, Sorted(names \ {name}))

\* sorted(os.listdir(node)) of every directory.
SortedListDir == [d \in Dirs |-> Sorted(ListDir(d))]

\* The for loop of update_completion over the sorted names.
RECURSIVE CompletionLoop(_, _, _, _, _, _)
CompletionLoop(names, current_path, filtered, filefilter, index, store) ==
    IF names = <<>> THEN store
    ELSE LET filename == Head(names)
         IN IF StartsWith(filename, <<".">>)
            THEN CompletionLoop(Tail(names), current_path, filtered, filefilter, index, store)
            ELSE IF filtered /\ ~StartsWith(filename, filefilter)
            THEN CompletionLoop(Tail(names), current_path, filtered, filefilter, index, store)
            ELSE IF index + 1 > max_completion_items
            THEN Append(store, Join(current_path, filename))
            ELSE CompletionLoop(Tail(names), current_path, filtered, filefilter, index + 1,
                                Append(store, Join(current_path, filename)))

\* FileChooserEntry.update_completion(current_path): the rows of the list store after it.
UpdateCompletion(path) ==
    LET exists == Exists(path)
        current_path == IF exists THEN path ELSE Split(path)[1]
        filefilter == IF exists THEN <<>> ELSE Split(path)[2]
    IN IF IsDir(current_path)
       THEN CompletionLoop(SortedListDir[Resolve(current_path)], current_path, ~exists,
                           filefilter, 0, <<>>)
       ELSE <<>>

\* system.get_existing_parent(path): the path itself when it is an existing
\* directory, else the nearest parent that is one (<<>>: None).
RECURSIVE GetExistingParent(_)
GetExistingParent(path) ==
    IF path = <<>> THEN <<>>
    ELSE IF Exists(path) /\ ~IsFile(path) THEN path
    ELSE GetExistingParent(Dirname(path))

\* The node of the nearest existing ancestor of a path.
RECURSIVE ExistingAncestor(_)
ExistingAncestor(path) ==
    IF path = <<>> THEN Cwd
    ELSE IF Exists(path) THEN Resolve(path)
    ELSE ExistingAncestor(Dirname(path))

\* LINUX_SYSTEM.get_fs_type_for_path(path)
GetFsTypeForPath(path) == IF OnNtfs(ExistingAncestor(path)) THEN "ntfs" ELSE "ext4"

\* os.access(path, os.W_OK)
Writable(path) == Resolve(path) \notin NotWritable

\* Gtk.Box.get_children(): the children packed at the start, then those
\* packed at the end, last packed first.
GetChildren(box) == box.start \o Reverse(box.end)

\* FileChooserEntry.clear_warnings: every child but the first is destroyed.
ClearWarnings(box) ==
    LET children == GetChildren(box)
        kept == IF children = <<>> THEN {} ELSE {Head(children)}
    IN [start |-> SelectSeq(box.start, LAMBDA w : w \in kept),
        end |-> SelectSeq(box.end, LAMBDA w : w \in kept)]

PackEnd(box, w) == [box EXCEPT !.end = Append(box.end, w)]

PackStart(box, w) == [box EXCEPT !.start = Append(box.start, w)]

\* FileChooserEntry.on_entry_changed with the entry holding text: the box, the
\* completion rows and the exception it ends with.
EntryChanged(cfg, text, box, completion) ==
    LET cleared == ClearWarnings(box)
        path == ExpandUser(text)
        rows == UpdateCompletion(path)
        ntfs == IF cfg.warn_if_ntfs /\ GetFsTypeForPath(path) = "ntfs"
                THEN PackEnd(cleared, "ntfs_box") ELSE cleared
        listed == cfg.warn_if_non_empty /\ Exists(path)
        non_empty == IF listed /\ IsDir(path) /\ ListDir(Resolve(path)) # {}
                     THEN PackEnd(ntfs, "non_empty_label") ELSE ntfs
        parent == GetExistingParent(path)
        non_writable == IF parent # <<>> /\ ~Writable(parent)
                        THEN PackEnd(non_empty, "non_writable_destination_label")
                        ELSE non_empty
    IN IF text = <<>>
       THEN [box |-> cleared, completion |-> completion, updated |-> FALSE, raised |-> "none"]
       ELSE IF listed /\ ~IsDir(path)
       THEN \* os.listdir of a path that is no directory
            [box |-> ntfs, completion |-> rows, updated |-> TRUE,
             raised |-> "NotADirectoryError"]
       ELSE [box |-> non_writable, completion |-> rows, updated |-> TRUE, raised |-> "none"]

\* The entry's "changed" signal: on_entry_changed runs on the new text.
OnEntryChanged(text) ==
    LET r == EntryChanged(chooser_cfg, text, chooser_children, path_completion)
    IN /\ chooser_text' = text
       /\ chooser_children' = r.box
       /\ path_completion' = r.completion
       /\ chooser_last' = [op |-> "changed", before |-> chooser_children,
                           updated |-> r.updated, raised |-> r.raised]
       /\ UNCHANGED <<chooser_cfg, loaderVars, entryVars, gridVars>>

\* The user types a character at the end of the entry.
TypeChar ==
    /\ Len(chooser_text) < MaxText
    /\ \E c \in PathChars : OnEntryChanged(Append(chooser_text, c))

\* The user deletes the last character of the entry.
Backspace ==
    /\ chooser_text # <<>>
    /\ OnEntryChanged(Front(chooser_text))

\* system.reverse_expanduser(path): the home directory written as ~.
ReverseExpandUser(path) ==
    IF StartsWith(path, Home) THEN <<"~">> \o SubSeq(path, Len(Home) + 1, Len(path)) ELSE path

\* The files and folders the file chooser dialog can return.
DialogPaths == {<<"/">>, <<"/", "a">>, <<"/", "b">>, <<"/", "a", "/", "a">>,
                <<"/", "b", "/", "a">>, <<"/", "b", "/", "b">>}

\* FileChooserEntry.on_select_file with response OK: the entry is set to the
\* file the dialog returns.
OnSelectFile ==
    \E target_path \in DialogPaths :
        /\ ReverseExpandUser(target_path) # chooser_text
        /\ OnEntryChanged(ReverseExpandUser(target_path))

NoBox == [start |-> <<>>, end |-> <<>>]

\* The path argument the widget is built with (<<>>: None).
InitialPaths == {<<>>, <<"/">>}

\* FileChooserEntry(path=path, warnings=...): the entry is given the path
\* (and on_entry_changed runs) before the entry row is packed.
InitChooser ==
    /\ chooser_cfg \in [warn_if_non_empty : BOOLEAN, warn_if_ntfs : BOOLEAN]
    /\ \E path \in InitialPaths :
        LET r == EntryChanged(chooser_cfg, path, NoBox, <<>>)
        IN /\ chooser_text = path
           /\ chooser_children = PackStart(r.box, "box")
           /\ path_completion = r.completion
           /\ chooser_last = IF path = <<>> THEN NoCall
                             ELSE [op |-> "changed", before |-> NoBox,
                                   updated |-> r.updated, raised |-> r.raised]
    /\ NoLoader /\ NoEntry /\ NoGrid

NextChooser == TypeChar \/ Backspace \/ OnSelectFile

SpecChooser == InitChooser /\ [][NextChooser]_vars

\* The directory and the prefix the text in the entry asks completions for.
TypedDirectory == IF Exists(ExpandUser(chooser_text)) THEN ExpandUser(chooser_text)
                  ELSE Split(ExpandUser(chooser_text))[1]

TypedPrefix == IF Exists(ExpandUser(chooser_text)) THEN <<>>
               ELSE Split(ExpandUser(chooser_text))[2]

\* The rows of the completion list are entries of the typed directory that
\* are not hidden and start with the typed prefix.
CompletionOfTypedText ==
    \A i \in 1..Len(path_completion) :
        /\ IsDir(TypedDirectory)
        /\ \E name \in ListDir(Resolve(TypedDirectory)) :
               /\ Head(name) # "."
               /\ StartsWith(name, TypedPrefix)
               /\ path_completion[i] = Join(TypedDirectory, name)

\* C7: after update_completion the completion list holds at most
\* max_completion_items = 15 rows, all of them non-hidden entries of the
\* typed directory that start with the typed prefix.
C7_CompletionBounded ==
    (chooser_last.op = "changed" /\ chooser_last.updated) =>
        /\ Len(path_completion) <= max_completion_items
        /\ CompletionOfTypedText

\* The warnings that apply to a text.
ExpectedWarnings(cfg, text) ==
    LET path == ExpandUser(text)
    IN IF text = <<>> THEN {}
       ELSE {w \in {"ntfs_box"} : cfg.warn_if_ntfs /\ OnNtfs(ExistingAncestor(path))}
            \cup {w \in {"non_empty_label"} :
                     /\ cfg.warn_if_non_empty
                     /\ IsDir(path)
                     /\ ListDir(Resolve(path)) # {}}
            \cup {w \in {"non_writable_destination_label"} :
                     GetExistingParent(path) # <<>> /\ ~Writable(GetExistingParent(path))}

\* C8: on_entry_changed ends without raising, and afterwards the box holds
\* the entry row first and then exactly the warnings that apply to the text,
\* each once.
C8_WarningsMatchText ==
    chooser_last.op = "changed" =>
        /\ chooser_last.raised = "none"
        /\ Head(GetChildren(chooser_children)) = "box"
        /\ Range(Tail(GetChildren(chooser_children)))
               = ExpectedWarnings(chooser_cfg, chooser_text)
        /\ Len(GetChildren(chooser_children))
               = 1 + Cardinality(ExpectedWarnings(chooser_cfg, chooser_text))

====
